---- MODULE Spec2Model ----
(***************************************************************************)
(* Model of can_lld_calc_bitrate (os/hal/ports/TIVA/LLD/CAN/hal_can_lld.c) *)
(* the CAN bit-timing solver of the TIVA low level driver.                 *)
(*                                                                         *)
(* One call of the function is a sequence of steps, one per statement      *)
(* group: the three assertions, the mode test, the tolerance computation,  *)
(* the outer loop over the number of quanta, the inner loop over the two   *)
(* prescaler candidates and the final write back into the CANConfig.       *)
(* The caller may then call again with the same request, or, after a       *)
(* successful search, with a larger oscillator tolerance.                  *)
(***************************************************************************)
EXTENDS Integers, Sequences, FiniteSets

(***************************************************************************)
(* Integer arithmetic of the C source.  Every value the model computes is  *)
(* kept below 2^31; the two places where the source needs more bits (the   *)
(* 10^15 dividend of the tolerance and the 32-bit wrap of the score        *)
(* product) are computed on limbs.                                         *)
(***************************************************************************)
U8(x)  == x % 256
U16(x) == x % 65536
I16(x) == LET u == x % 65536 IN IF u >= 32768 THEN u - 65536 ELSE u

Abs(x) == IF x < 0 THEN 0 - x ELSE x

\* C integer division: truncation toward zero (b # 0).
CDiv(a, b) ==
  LET q == Abs(a) \div Abs(b)
  IN  IF (a >= 0) = (b > 0) THEN q ELSE 0 - q

Min2(a, b) == IF a <= b THEN a ELSE b

\* Unsigned division of a number given by its base-1000 digits (most
\* significant first) by d, 0 < d < 2147483: the digits of the quotient.
RECURSIVE DivDigits(_, _, _)
DivDigits(ds, d, rem) ==
  IF ds = << >> THEN << >>
  ELSE LET cur == rem * 1000 + Head(ds)
       IN  <<cur \div d>> \o DivDigits(Tail(ds), d, cur % d)

RECURSIVE DigitsValue(_, _)
DigitsValue(ds, acc) ==
  IF ds = << >> THEN acc ELSE DigitsValue(Tail(ds), acc * 1000 + Head(ds))

\* k * x modulo 2^32 as the pair <<high 16 bits, low 16 bits>>,
\* for -65536 < k < 65536 and 0 <= x < 2^31.
MulU32(k, x) ==
  LET pl == k * (x % 65536)
      lo == pl % 65536
      hi == (k * (x \div 65536) + (pl - lo) \div 65536) % 65536
  IN  <<hi, lo>>

\* Unsigned comparison a > b of two such pairs.
GtU32(a, b) == a[1] > b[1] \/ (a[1] = b[1] /\ a[2] > b[2])

(***************************************************************************)
(* Program constants.                                                      *)
(***************************************************************************)
MinBitrate   == 1000      \* assert(confp->bitrate >= 1000)
MinQuanta    == 4         \* try_num_quanta = 4
MaxQuanta    == 25        \* try_num_quanta <= 25
MaxPrescaler == 1024      \* tmp_prescaler > 1024 -> continue
MaxSjw       == 4         \* tmp_phase2_tq <= 4, tmp_needed_sjw <= 4
Tseg1Limit   == 16        \* tmp_prop_tq + tmp_phase1_tq < 16

(***************************************************************************)
(* Bounds of the model and the inputs it draws.                            *)
(***************************************************************************)
MaxCalls   == 2           \* calls the caller makes with one request
NumGarbage == 3           \* stack contents a call may start with

\* TIVA_SYSCLK of the build.
Clocks     == {16000000, 80000000}
Bitrates   == {0, 999, 1000, 250000, 500000, 1000000}
OscTols    == {0, 1000, 15000, 25000, 400000}
PropDelays == {0, 250, 2000}

\* prescaler, tseg1, tseg2, sjw of the CANConfig handed to the call.
Timings ==
  { [prescaler |-> 4,    tseg1 |-> 11, tseg2 |-> 4, sjw |-> 4],
    [prescaler |-> 0,    tseg1 |-> 0,  tseg2 |-> 0, sjw |-> 0],
    [prescaler |-> 8,    tseg1 |-> 5,  tseg2 |-> 2, sjw |-> 3],
    [prescaler |-> 2000, tseg1 |-> 17, tseg2 |-> 8, sjw |-> 4] }

\* Contents of the stack slots of the uninitialized locals at entry.
GarbageSeq ==
  << [prescaler |-> 0, tq_nanos |-> 0, prop_tq |-> 0, phase1_tq |-> 0,
      phase2_tq |-> 0, sjw |-> 0, needed_sjw |-> 0],
     [prescaler |-> 1025, tq_nanos |-> 2147483647, prop_tq |-> 0,
      phase1_tq |-> 0, phase2_tq |-> 255, sjw |-> 255, needed_sjw |-> 0],
     [prescaler |-> 7, tq_nanos |-> 300, prop_tq |-> 3, phase1_tq |-> 2,
      phase2_tq |-> 2, sjw |-> 2, needed_sjw |-> 1],
     [prescaler |-> 0, tq_nanos |-> 1000, prop_tq |-> 0, phase1_tq |-> 0,
      phase2_tq |-> 0, sjw |-> 0, needed_sjw |-> 3],
     [prescaler |-> 1, tq_nanos |-> 100, prop_tq |-> 1, phase1_tq |-> 1,
      phase2_tq |-> 1, sjw |-> 1, needed_sjw |-> 1] >>

Garbage == { GarbageSeq[k] : k \in 1..Min2(NumGarbage, Len(GarbageSeq)) }

\* Quotients a division by zero may leave when it does not trap.
DivZeroQuotients == {0, 2147483647}

VARIABLES
  clock,            \* TIVA_SYSCLK
  confp,            \* the CANConfig the call works on
  entry,            \* the CANConfig as the caller handed it over
  pc,               \* position in can_lld_calc_bitrate
  failed_assert,    \* the assertion that stopped the call, or "none"
  prescaler, tq_nanos, prop_tq, phase1_tq, phase2_tq, sjw, needed_sjw,
  match_found, tolerance_nanos,
  try_num_quanta, i, tmp_prescaler,
  calls,            \* number of the running call
  prev,             \* outcome of the previous call with this request
  prev_search       \* tolerance and incumbent the previous call ended with

best   == <<prescaler, tq_nanos, prop_tq, phase1_tq, phase2_tq, sjw, needed_sjw>>
search == <<match_found, tolerance_nanos, try_num_quanta, i, tmp_prescaler>>
caller == <<clock, entry, calls, prev, prev_search>>
vars   == <<confp, pc, failed_assert, best, search, caller>>

(***************************************************************************)
(* The computations of can_lld_calc_bitrate.                               *)
(***************************************************************************)

\* ToleranceNanos with the sign of the frequency error slipped.
ToleranceNanos_SignSlip(conf) ==
  LET q1 == DivDigits(<<1, 0, 0, 0, 0, 0>>, conf.bitrate, 0)
      q2 == DivDigits(q1, 1000000 - conf.osc_tol, 0)
  IN  1000000000 \div conf.bitrate - DigitsValue(q2, 0)

\* Line 106: nanoseconds-per-bit tolerance, for bitrate >= 1000.
\* 10^15 is the digit sequence <<1,0,0,0,0,0>> in base 1000.
ToleranceNanos(conf) ==
  LET q1 == DivDigits(<<1, 0, 0, 0, 0, 0>>, conf.bitrate, 0)
      q2 == DivDigits(q1, 1000000 + conf.osc_tol, 0)
  IN  1000000000 \div conf.bitrate - DigitsValue(q2, 0)

\* Line 117: the prescaler the outer loop starts from.
FirstPrescaler(clk, conf, n) == (clk \div conf.bitrate) \div n

\* Line 126: duration of one time quantum.
TqNanos(clk, p) == (p * 1000000) \div (clk \div 1000)

\* MismatchNanos comparing one quantum, not the n quanta of the bit.
MismatchNanos_PerQuantum(conf, n, tq) == Abs(tq - CDiv(1000000000, conf.bitrate))

\* Line 129: timing error of the bit made of n quanta.
MismatchNanos(conf, n, tq) == Abs(tq * n - CDiv(1000000000, conf.bitrate))

\* NeededSjw without the factor 10 of line 131.
NeededSjw_Unscaled(mismatch, tol, tq) == CDiv((mismatch + tol) + tq - 1, tq)

\* Line 131: SJW needed, rounded up (tq > 0).
NeededSjw(mismatch, tol, tq) == CDiv((mismatch + tol) * 10 + tq - 1, tq)

\* Line 133: propagation delay in quanta, rounded up (tq > 0).
PropTq(conf, tq) == U16((conf.prop_delay + tq - 1) \div tq)

\* Lines 134-135: the two phases.
Phase1Tq(n, prop) == I16(CDiv(n - 1 - prop + 1, 2))
Phase2Tq(n, prop) == I16(CDiv(n - 1 - prop, 2))

\* Lines 137-141: the acceptance test of a candidate.
Feasible(prop, p1, p2, needed) ==
  /\ p2 > 0
  /\ p2 <= MaxSjw
  /\ prop + p1 < Tseg1Limit
  /\ needed <= MaxSjw
  /\ needed <= p2

\* Line 144.
TmpSjw(p2) == U8(IF p2 > MaxSjw THEN MaxSjw ELSE p2)

\* Line 146: the candidate replaces the incumbent.
Better(tmp_sjw, tmp_needed, tmp_tq, cur_sjw, cur_needed, cur_tq) ==
  GtU32(MulU32(tmp_sjw - tmp_needed + 1, tmp_tq),
        MulU32(cur_sjw - cur_needed + 1, cur_tq))

\* Lines 126-135 for one candidate; qn and qp stand for the quotients of
\* lines 131 and 133 when tq is zero.
Candidate(clk, conf, tol, n, p, qn, qp) ==
  LET tq       == TqNanos(clk, p)
      mismatch == MismatchNanos(conf, n, tq)
      needed   == IF tq = 0 THEN qn ELSE NeededSjw(mismatch, tol, tq)
      prop     == IF tq = 0 THEN U16(qp) ELSE PropTq(conf, tq)
      p1       == Phase1Tq(n, prop)
      p2       == Phase2Tq(n, prop)
  IN  [n |-> n, prescaler |-> p, tq_nanos |-> tq, mismatch |-> mismatch,
       needed_sjw |-> needed, prop_tq |-> prop,
       phase1_tq |-> p1, phase2_tq |-> p2,
       feasible |-> Feasible(prop, p1, p2, needed),
       sjw |-> TmpSjw(p2)]

TimingOf(conf) ==
  [prescaler |-> conf.prescaler, tseg1 |-> conf.tseg1,
   tseg2 |-> conf.tseg2, sjw |-> conf.sjw]

\* What the caller has after the call ended.
Outcome ==
  [status |-> pc, failed |-> failed_assert, timing |-> TimingOf(confp)]

Ended == pc \in {"done", "aborted", "fault"}

\* The incumbent of the search, lines 92-98.
Incumbent ==
  [prescaler |-> prescaler, tq_nanos |-> tq_nanos, prop_tq |-> prop_tq,
   phase1_tq |-> phase1_tq, phase2_tq |-> phase2_tq, sjw |-> sjw,
   needed_sjw |-> needed_sjw]

\* What the search of the call ended with.
SearchResult ==
  [osc_tol |-> entry.osc_tol,
   won |-> (pc = "done" /\ entry.bittime_autoguess /\ match_found),
   tolerance_nanos |-> tolerance_nanos,
   incumbent |-> Incumbent]

(***************************************************************************)
(* Initial state: the caller has filled a CANConfig and calls.             *)
(***************************************************************************)
EnterWith(g) ==
  /\ pc = "assert_bitrate"
  /\ failed_assert = "none"
  /\ prescaler = g.prescaler
  /\ tq_nanos = g.tq_nanos
  /\ prop_tq = g.prop_tq
  /\ phase1_tq = g.phase1_tq
  /\ phase2_tq = g.phase2_tq
  /\ sjw = g.sjw
  /\ needed_sjw = g.needed_sjw
  /\ match_found = FALSE
  /\ tolerance_nanos = 0
  /\ try_num_quanta = 0
  /\ i = 0
  /\ tmp_prescaler = 0

Init ==
  /\ clock \in Clocks
  /\ \E b \in Bitrates, o \in OscTols, d \in PropDelays, t \in Timings,
        a \in BOOLEAN :
        confp = [bitrate |-> b, osc_tol |-> o, prop_delay |-> d,
                 prescaler |-> t.prescaler, tseg1 |-> t.tseg1,
                 tseg2 |-> t.tseg2, sjw |-> t.sjw,
                 bittime_autoguess |-> a]
  /\ entry = confp
  /\ calls = 1
  /\ prev = [status |-> "none", failed |-> "none", timing |-> TimingOf(confp)]
  /\ prev_search = [osc_tol |-> confp.osc_tol, won |-> FALSE,
                    tolerance_nanos |-> 0, incumbent |-> GarbageSeq[1]]
  /\ \E g \in Garbage : EnterWith(g)

(***************************************************************************)
(* The steps of one call.                                                  *)
(***************************************************************************)

\* Line 85: assert(confp->bitrate >= 1000).
AssertBitrate ==
  /\ pc = "assert_bitrate"
  /\ IF confp.bitrate >= MinBitrate
       THEN pc' = "assert_prop_delay" /\ UNCHANGED failed_assert
       ELSE pc' = "aborted" /\ failed_assert' = "bitrate"
  /\ UNCHANGED <<confp, best, search, caller>>

\* AssertPropDelay with the assertion of line 86 left out.
AssertPropDelay_Off ==
  /\ pc = "assert_prop_delay"
  /\ pc' = "assert_osc_tol"
  /\ UNCHANGED <<confp, failed_assert, best, search, caller>>

\* Line 86: assert(confp->prop_delay > 0).
AssertPropDelay ==
  /\ pc = "assert_prop_delay"
  /\ IF confp.prop_delay > 0
       THEN pc' = "assert_osc_tol" /\ UNCHANGED failed_assert
       ELSE pc' = "aborted" /\ failed_assert' = "prop_delay"
  /\ UNCHANGED <<confp, best, search, caller>>

\* Line 87: assert(confp->osc_tol > 0).
AssertOscTol ==
  /\ pc = "assert_osc_tol"
  /\ IF confp.osc_tol > 0
       THEN pc' = "mode" /\ UNCHANGED failed_assert
       ELSE pc' = "aborted" /\ failed_assert' = "osc_tol"
  /\ UNCHANGED <<confp, best, search, caller>>

\* CheckMode without the early return of line 90.
CheckMode_NoReturn ==
  /\ pc = "mode"
  /\ pc' = "tolerance"
  /\ UNCHANGED <<confp, failed_assert, best, search, caller>>

\* Lines 89-90: without bittime_autoguess the function returns.
CheckMode ==
  /\ pc = "mode"
  /\ pc' = IF confp.bittime_autoguess THEN "tolerance" ELSE "done"
  /\ UNCHANGED <<confp, failed_assert, best, search, caller>>

\* Lines 99-114: match_found, tolerance_nanos and the loop variable.
ComputeTolerance ==
  /\ pc = "tolerance"
  /\ match_found' = FALSE
  /\ tolerance_nanos' = ToleranceNanos(confp)
  /\ try_num_quanta' = MinQuanta
  /\ pc' = "outer"
  /\ UNCHANGED <<confp, failed_assert, best, i, tmp_prescaler, caller>>

\* Lines 114-119: head of the outer loop.
OuterLoop ==
  /\ pc = "outer"
  /\ IF try_num_quanta <= MaxQuanta
       THEN /\ tmp_prescaler' = FirstPrescaler(clock, confp, try_num_quanta)
            /\ i' = 0
            /\ pc' = "inner"
       ELSE /\ pc' = "write"
            /\ UNCHANGED <<tmp_prescaler, i>>
  /\ UNCHANGED <<confp, failed_assert, best, match_found, tolerance_nanos,
                 try_num_quanta, caller>>

\* Line 119: the inner loop is over, ++try_num_quanta.
InnerExit ==
  /\ pc = "inner"
  /\ i > 1
  /\ try_num_quanta' = try_num_quanta + 1
  /\ pc' = "outer"
  /\ UNCHANGED <<confp, failed_assert, best, match_found, tolerance_nanos,
                 i, tmp_prescaler, caller>>

\* Lines 121-124: a prescaler above 1024 is skipped.
SkipPrescaler ==
  /\ pc = "inner"
  /\ i <= 1
  /\ tmp_prescaler + i > MaxPrescaler
  /\ tmp_prescaler' = tmp_prescaler + i
  /\ i' = i + 1
  /\ UNCHANGED <<confp, pc, failed_assert, best, match_found,
                 tolerance_nanos, try_num_quanta, caller>>

\* Lines 137-156 for the candidate c.
Consider(c) ==
  IF c.feasible
    THEN /\ match_found' = TRUE
         /\ IF Better(c.sjw, c.needed_sjw, c.tq_nanos,
                      sjw, needed_sjw, tq_nanos)
              THEN /\ prescaler' = U16(c.prescaler)
                   /\ tq_nanos' = c.tq_nanos
                   /\ prop_tq' = c.prop_tq
                   /\ phase1_tq' = U8(c.phase1_tq)
                   /\ phase2_tq' = U8(c.phase2_tq)
                   /\ sjw' = c.sjw
                   /\ needed_sjw' = U8(c.needed_sjw)
              ELSE UNCHANGED best
    ELSE UNCHANGED <<match_found, best>>

\* Lines 121-157: one candidate with a quantum of at least 1 ns.
Evaluate ==
  /\ pc = "inner"
  /\ i <= 1
  /\ tmp_prescaler + i <= MaxPrescaler
  /\ TqNanos(clock, tmp_prescaler + i) > 0
  /\ Consider(Candidate(clock, confp, tolerance_nanos, try_num_quanta,
                        tmp_prescaler + i, 0, 0))
  /\ tmp_prescaler' = tmp_prescaler + i
  /\ i' = i + 1
  /\ UNCHANGED <<confp, pc, failed_assert, tolerance_nanos, try_num_quanta,
                 caller>>

\* Lines 131 and 133 with tmp_tq_nanos = 0: the division traps.
DivideByZeroTrap ==
  /\ pc = "inner"
  /\ i <= 1
  /\ tmp_prescaler + i <= MaxPrescaler
  /\ TqNanos(clock, tmp_prescaler + i) = 0
  /\ pc' = "fault"
  /\ UNCHANGED <<confp, failed_assert, best, search, caller>>

\* Lines 131 and 133 with tmp_tq_nanos = 0: the divisions leave some
\* quotient and the call goes on.
DivideByZeroContinue ==
  /\ pc = "inner"
  /\ i <= 1
  /\ tmp_prescaler + i <= MaxPrescaler
  /\ TqNanos(clock, tmp_prescaler + i) = 0
  /\ \E qn \in DivZeroQuotients, qp \in DivZeroQuotients :
        Consider(Candidate(clock, confp, tolerance_nanos, try_num_quanta,
                           tmp_prescaler + i, qn, qp))
  /\ tmp_prescaler' = tmp_prescaler + i
  /\ i' = i + 1
  /\ UNCHANGED <<confp, pc, failed_assert, tolerance_nanos, try_num_quanta,
                 caller>>

\* Lines 160-167: the result goes into the CANConfig.
WriteBack ==
  /\ pc = "write"
  /\ confp' = IF match_found
                THEN [confp EXCEPT !.prescaler = prescaler,
                                   !.tseg1 = U8(prop_tq + phase1_tq),
                                   !.tseg2 = phase2_tq,
                                   !.sjw = sjw]
                ELSE confp
  /\ pc' = "done"
  /\ UNCHANGED <<failed_assert, best, search, caller>>

\* Entry of a call: the uninitialized locals hold what the stack held.
Enter(g) ==
  /\ pc' = "assert_bitrate"
  /\ failed_assert' = "none"
  /\ prescaler' = g.prescaler
  /\ tq_nanos' = g.tq_nanos
  /\ prop_tq' = g.prop_tq
  /\ phase1_tq' = g.phase1_tq
  /\ phase2_tq' = g.phase2_tq
  /\ sjw' = g.sjw
  /\ needed_sjw' = g.needed_sjw
  /\ match_found' = FALSE
  /\ tolerance_nanos' = 0
  /\ try_num_quanta' = 0
  /\ i' = 0
  /\ tmp_prescaler' = 0

\* The caller calls again with the request it made before.
CallAgain ==
  /\ Ended
  /\ calls < MaxCalls
  /\ calls' = calls + 1
  /\ prev' = Outcome
  /\ prev_search' = SearchResult
  /\ confp' = entry
  /\ \E g \in Garbage : Enter(g)
  /\ UNCHANGED <<clock, entry>>

\* After a successful search the caller asks again with a larger
\* oscillator tolerance, everything else as before.
CallWithTolerance ==
  /\ pc = "done"
  /\ entry.bittime_autoguess
  /\ match_found
  /\ calls < MaxCalls
  /\ \E o \in OscTols :
        /\ o > entry.osc_tol
        /\ entry' = [entry EXCEPT !.osc_tol = o]
  /\ confp' = entry'
  /\ calls' = calls + 1
  /\ prev' = [status |-> "none", failed |-> "none",
              timing |-> TimingOf(entry)]
  /\ prev_search' = SearchResult
  /\ \E g \in Garbage : Enter(g)
  /\ UNCHANGED clock

Next ==
  \/ AssertBitrate
  \/ AssertPropDelay
  \/ AssertOscTol
  \/ CheckMode
  \/ ComputeTolerance
  \/ OuterLoop
  \/ InnerExit
  \/ SkipPrescaler
  \/ Evaluate
  \/ DivideByZeroTrap
  \/ DivideByZeroContinue
  \/ WriteBack
  \/ CallAgain
  \/ CallWithTolerance

Spec == Init /\ [][Next]_vars

(***************************************************************************)
(* Vocabulary of the properties.                                           *)
(***************************************************************************)

\* The four invariants of an accepted timing.
ValidTiming(t) ==
  /\ 1 <= t.prescaler /\ t.prescaler <= 1024
  /\ 4 <= 1 + t.tseg1 + t.tseg2 /\ 1 + t.tseg1 + t.tseg2 <= 25
  /\ t.tseg1 <= 16
  /\ 1 <= t.sjw /\ t.sjw <= t.tseg2 /\ t.sjw <= 4

AutoCall == entry.bittime_autoguess
ValidAutoRequest ==
  /\ AutoCall
  /\ entry.bitrate >= 1000
  /\ entry.prop_delay > 0
  /\ entry.osc_tol > 0

\* The search visits the slots <<n, k>>, n = 4..25, k = 0 (prescaler P) and
\* k = 1 (prescaler P + 1), n ascending and k = 0 first.
Slots == { <<n, k>> : n \in 4..25, k \in 0..1 }
SlotBefore(a, b) == a[1] < b[1] \/ (a[1] = b[1] /\ a[2] < b[2])
SlotPrescaler(s) == FirstPrescaler(clock, entry, s[1]) + s[2]
SlotCandidate(s) ==
  Candidate(clock, entry, ToleranceNanos(entry), s[1], SlotPrescaler(s), 0, 0)
\* The slot is evaluated: its prescaler is in 1..1024 and its quantum lasts.
SlotEvaluated(s) ==
  /\ 1 <= SlotPrescaler(s) /\ SlotPrescaler(s) <= 1024
  /\ TqNanos(clock, SlotPrescaler(s)) > 0
FeasibleSlots == { s \in Slots : SlotEvaluated(s) /\ SlotCandidate(s).feasible }

\* Score of a feasible candidate, as an integer.
ScoreOf(c) == (Min2(c.phase2_tq, 4) - c.needed_sjw + 1) * c.tq_nanos

\* The feasible slot of maximal score, the first one in search order.
IsBestSlot(s) ==
  /\ s \in FeasibleSlots
  /\ \A o \in FeasibleSlots :
        \/ ScoreOf(SlotCandidate(o)) < ScoreOf(SlotCandidate(s))
        \/ (ScoreOf(SlotCandidate(o)) = ScoreOf(SlotCandidate(s))
             /\ ~SlotBefore(o, s))

\* The timing the write back makes of a candidate.
CandidateTiming(c) ==
  [prescaler |-> c.prescaler, tseg1 |-> c.prop_tq + c.phase1_tq,
   tseg2 |-> c.phase2_tq, sjw |-> c.sjw]

\* The call ran the search to its end and wrote a timing.
WroteTiming == pc = "done" /\ AutoCall /\ match_found

(***************************************************************************)
(* C1.  Every auto-mode call with a valid request that finds a match and   *)
(* writes a timing writes values that satisfy the four invariants:         *)
(* 1 <= prescaler <= 1024, 4 <= 1 + tseg1 + tseg2 <= 25, tseg1 <= 16,      *)
(* 1 <= sjw <= tseg2 and sjw <= 4.                                         *)
(***************************************************************************)
C1_WrittenTimingValid ==
  (WroteTiming /\ ValidAutoRequest) => ValidTiming(TimingOf(confp))

(***************************************************************************)
(* C2.  In auto mode, when some candidate is feasible, the timing written  *)
(* at the end of the search is that of the feasible candidate of maximal   *)
(* score, the first one in search order among equals; and from the first   *)
(* feasible candidate on the incumbent is a feasible candidate (the first  *)
(* feasible candidate always becomes the incumbent).                       *)
(***************************************************************************)
IncumbentIs(c) ==
  /\ prescaler = c.prescaler
  /\ tq_nanos = c.tq_nanos
  /\ prop_tq = c.prop_tq
  /\ phase1_tq = c.phase1_tq
  /\ phase2_tq = c.phase2_tq
  /\ sjw = c.sjw
  /\ needed_sjw = c.needed_sjw

C2_BestCandidateWritten ==
  /\ (pc = "done" /\ ValidAutoRequest /\ FeasibleSlots # {})
       => \E s \in FeasibleSlots :
            /\ IsBestSlot(s)
            /\ TimingOf(confp) = CandidateTiming(SlotCandidate(s))
  /\ (pc \in {"outer", "inner", "write"} /\ match_found)
       => \E s \in FeasibleSlots : IncumbentIs(SlotCandidate(s))

(***************************************************************************)
(* C3.  In auto mode, when no candidate is feasible, the call ends in a    *)
(* failure outcome the caller can tell from a successful solve: it never   *)
(* completes the way a call that produced a solution completes.            *)
(***************************************************************************)
C3_NoFeasibleIsFailure ==
  (Ended /\ ValidAutoRequest /\ FeasibleSlots = {}) => Outcome.status # "done"

(***************************************************************************)
(* C4.  After any call the four output fields are either all unchanged     *)
(* from their values before the call, or all four are the values of one    *)
(* and the same feasible candidate.                                        *)
(***************************************************************************)
C4_NoPartialOutput ==
  Ended =>
    \/ TimingOf(confp) = TimingOf(entry)
    \/ /\ ValidAutoRequest
       /\ \E s \in FeasibleSlots :
            TimingOf(confp) = CandidateTiming(SlotCandidate(s))

(***************************************************************************)
(* C5.  Determinism: two calls with the same request and the same clock    *)
(* end with the same outcome, whatever the locals held at entry.  Stated   *)
(* for two calls that both return: they leave the same four values.        *)
(***************************************************************************)
C5_SameRequestSameOutcome ==
  (calls >= 2 /\ pc = "done" /\ prev.status = "done") => Outcome = prev

(***************************************************************************)
(* C6.  In explicit mode (bittime_autoguess false) with a valid supplied   *)
(* timing the call performs no search iteration and leaves prescaler,      *)
(* tseg1, tseg2 and sjw exactly as supplied.                               *)
(***************************************************************************)
SearchPositions == {"tolerance", "outer", "inner", "write", "fault"}

C6_ExplicitUntouched ==
  (~AutoCall /\ ValidTiming(TimingOf(entry)))
    => /\ pc \notin SearchPositions
       /\ try_num_quanta = 0
       /\ ~match_found
       /\ TimingOf(confp) = TimingOf(entry)

\* An explicit call with a valid timing has returned.
C6_Witness ==
  /\ pc = "done"
  /\ ~AutoCall
  /\ ValidTiming(TimingOf(entry))
  /\ TimingOf(confp) = TimingOf(entry)

(***************************************************************************)
(* C7.  In explicit mode a supplied timing that violates one of the four   *)
(* invariants is rejected and never accepted as the result: the call does  *)
(* not return normally with it.                                            *)
(***************************************************************************)
C7_InvalidExplicitRejected ==
  (Ended /\ ~AutoCall /\ ~ValidTiming(TimingOf(entry))) => pc # "done"

(***************************************************************************)
(* C8.  Validation precedes the search: a request with bitrate < 1000, or  *)
(* an auto-mode request with prop_delay = 0 or osc_tol = 0, is stopped by  *)
(* the assertion of its kind before the tolerance is computed and before   *)
(* any candidate is evaluated, and no output field is written.             *)
(***************************************************************************)
BadBitrate == entry.bitrate < 1000
BadAutoParameters ==
  /\ entry.bitrate >= 1000
  /\ AutoCall
  /\ (entry.prop_delay = 0 \/ entry.osc_tol = 0)

C9_ExplicitNeedsNoAutoParameters ==
  (Ended /\ ~AutoCall /\ ValidTiming(TimingOf(entry))
     /\ entry.bitrate >= 1000)
    => (pc = "done" /\ TimingOf(confp) = TimingOf(entry))

(***************************************************************************)
(* C10.  The propagation delay is rounded up to whole quanta: for every    *)
(* evaluated candidate prop_tq is the least integer with                   *)
(* prop_tq * tq_ns >= prop_delay, and in every produced timing             *)
(* tseg1 * tq_ns >= prop_delay.                                            *)
(***************************************************************************)
C10_PropDelayRoundedUp ==
  /\ (pc \in {"write", "done"} /\ ValidAutoRequest)
       => \A s \in Slots :
            SlotEvaluated(s) =>
              LET c == SlotCandidate(s)
              IN  /\ c.prop_tq * c.tq_nanos >= entry.prop_delay
                  /\ (c.prop_tq - 1) * c.tq_nanos < entry.prop_delay
                  /\ c.prop_tq >= 1
  /\ (WroteTiming /\ ValidAutoRequest)
       => confp.tseg1 * TqNanos(clock, confp.prescaler) >= entry.prop_delay

(***************************************************************************)
(* C11.  Monotonic tolerance sensitivity: clock, bitrate and prop_delay    *)
(* fixed, for two successful auto-mode requests with osc_tol a < b the     *)
(* needed_sjw of the winning candidate for b is not smaller than that of   *)
(* the winning candidate for a.  Stated for two searches whose incumbents  *)
(* are candidates of their search.                                         *)
(***************************************************************************)
\* The request of the previous call.
LowerRequest == [entry EXCEPT !.osc_tol = prev_search.osc_tol]

CandidateAt(conf, s) ==
  Candidate(clock, conf, ToleranceNanos(conf), s[1],
            FirstPrescaler(clock, conf, s[1]) + s[2], 0, 0)

CandidateKey(c) ==
  [prescaler |-> c.prescaler, tq_nanos |-> c.tq_nanos, prop_tq |-> c.prop_tq,
   phase1_tq |-> c.phase1_tq, phase2_tq |-> c.phase2_tq, sjw |-> c.sjw,
   needed_sjw |-> c.needed_sjw]

\* inc is a feasible candidate of the search for conf.
RealWinner(conf, inc) ==
  \E s \in Slots :
    /\ SlotEvaluated(s)
    /\ CandidateAt(conf, s).feasible
    /\ CandidateKey(CandidateAt(conf, s)) = inc

\* The running call follows a successful call with a smaller osc_tol.
ToleranceRaised ==
  /\ calls >= 2
  /\ prev_search.won
  /\ prev_search.osc_tol < entry.osc_tol

C11_WinnerNeededSjwMonotone ==
  (ToleranceRaised /\ WroteTiming
     /\ RealWinner(LowerRequest, prev_search.incumbent)
     /\ RealWinner(entry, Incumbent))
    => needed_sjw >= prev_search.incumbent.needed_sjw

\* C11 as amended: for osc_tol a < b the tolerance in nanoseconds for b is
\* not smaller than for a, and for every evaluated candidate (N, P) the
\* needed_sjw for b is not smaller than for a; the winners may differ.
C11_CandidateNeededSjwMonotone ==
  /\ (ToleranceRaised /\ pc \in {"outer", "inner", "write", "done"})
       => tolerance_nanos >= prev_search.tolerance_nanos
  /\ (ToleranceRaised /\ pc \in {"write", "done"})
       => \A s \in Slots :
            SlotEvaluated(s) =>
              CandidateAt(entry, s).needed_sjw
                >= CandidateAt(LowerRequest, s).needed_sjw

\* Both searches succeeded with a candidate of theirs, and the winner for
\* the larger tolerance needs the smaller SJW.
C11_Witness ==
  /\ ToleranceRaised
  /\ WroteTiming
  /\ RealWinner(LowerRequest, prev_search.incumbent)
  /\ RealWinner(entry, Incumbent)
  /\ tolerance_nanos > prev_search.tolerance_nanos
  /\ needed_sjw < prev_search.incumbent.needed_sjw

(***************************************************************************)
(* C12.  For every evaluated candidate needed_sjw equals                   *)
(* ceil((mismatch_ns + tolerance_ns) / tq_ns), with                        *)
(* mismatch_ns = |tq_ns * N - nominal_period_ns|, and no other scaling     *)
(* factor enters the value compared against 4 and against phase2_tq in the *)
(* feasibility test.                                                       *)
(***************************************************************************)
NominalPeriod == 1000000000 \div entry.bitrate

\* Least integer v with v * tq >= total (tq > 0, total >= 0).
CeilDiv(total, tq) == (total + tq - 1) \div tq

\* With the time error of a bit scaled by `scale`: every evaluated
\* candidate needs the rounded-up quotient, the feasibility test compares
\* that value, and so does the incumbent a finished search wrote.
NeededSjwScaledBy(scale) ==
  /\ (pc \in {"write", "done"} /\ ValidAutoRequest)
       => \A s \in Slots :
            SlotEvaluated(s) =>
              LET c  == SlotCandidate(s)
                  tq == c.tq_nanos
                  v  == CeilDiv(scale * (Abs(tq * s[1] - NominalPeriod)
                                         + tolerance_nanos), tq)
              IN  /\ c.needed_sjw = v
                  /\ c.feasible
                       = (/\ c.phase2_tq > 0 /\ c.phase2_tq <= 4
                          /\ c.prop_tq + c.phase1_tq < 16
                          /\ v <= 4 /\ v <= c.phase2_tq)
  /\ (WroteTiming /\ ValidAutoRequest /\ RealWinner(entry, Incumbent))
       => LET n == 1 + confp.tseg1 + confp.tseg2
          IN  needed_sjw
                = CeilDiv(scale * (Abs(tq_nanos * n - NominalPeriod)
                                   + tolerance_nanos), tq_nanos)

C12_NeededSjwUnscaled == NeededSjwScaledBy(1)

\* C12 as amended: needed_sjw equals
\* ceil(10 * (mismatch_ns + tolerance_ns) / tq_ns), and this value is the
\* one compared against 4 and against phase2_tq.
C12_NeededSjwTenfold == NeededSjwScaledBy(10)

\* A finished search whose winner needs more than the one quantum the
\* unscaled quotient would give.
C12_Witness ==
  /\ WroteTiming
  /\ ValidAutoRequest
  /\ RealWinner(entry, Incumbent)
  /\ needed_sjw >= 2
  /\ Abs(tq_nanos * (1 + confp.tseg1 + confp.tseg2) - NominalPeriod)
       + tolerance_nanos <= tq_nanos

(***************************************************************************)
(* C13.  A prescaler candidate outside 1..1024 is rejected before its      *)
(* quantum duration is used; in particular prescaler 0 is skipped, so the  *)
(* search never divides by a zero tq_ns and completes all 22 values of N   *)
(* for every request that passes validation.                               *)
(***************************************************************************)
C13_PrescalerOutOfRangeSkipped ==
  /\ pc # "fault"
  /\ (Ended /\ ValidAutoRequest)
       => (pc = "done" /\ try_num_quanta = MaxQuanta + 1)

(***************************************************************************)
(* C14.  In every timing produced by the auto search SJW is at least one   *)
(* quantum and both phases are strictly greater than SJW.  Stated for      *)
(* searches whose incumbent is a candidate of the search.                  *)
(***************************************************************************)
C14_PhasesExceedSjw ==
  (WroteTiming /\ ValidAutoRequest /\ RealWinner(entry, Incumbent))
    => /\ confp.sjw >= 1
       /\ phase1_tq > confp.sjw
       /\ phase2_tq > confp.sjw

(***************************************************************************)
(* C15.  Whenever clock = bitrate * N * P holds exactly for some N in      *)
(* 4..25 and P in 1..1024, the candidate (N, P) is evaluated with a        *)
(* mismatch of 0 ns; and for clock 16 MHz, bitrate 500000, prop_delay 250   *)
(* and osc_tol 25000 the search finds a feasible candidate.                *)
(***************************************************************************)
ExactSlot(s) ==
  /\ 1 <= SlotPrescaler(s) /\ SlotPrescaler(s) <= 1024
  /\ clock = entry.bitrate * s[1] * SlotPrescaler(s)

\* The quantum of the slot is a whole number of nanoseconds.
WholeQuantum(s) ==
  /\ clock % 1000 = 0
  /\ (SlotPrescaler(s) * 1000000) % (clock \div 1000) = 0

SearchOver == pc \in {"write", "done"} /\ ValidAutoRequest

BoundaryInstance ==
  /\ clock = 16000000
  /\ entry.bitrate = 500000
  /\ entry.prop_delay = 250
  /\ entry.osc_tol = 25000

ExactSlotsHaveNoMismatch(whole_only) ==
  /\ SearchOver
       => \A s \in Slots :
            (ExactSlot(s) /\ (whole_only => WholeQuantum(s)))
              => /\ SlotEvaluated(s)
                 /\ SlotCandidate(s).mismatch = 0
                 /\ SlotCandidate(s).tq_nanos * s[1] * entry.bitrate = 1000000000
  /\ (SearchOver /\ BoundaryInstance)
       => /\ match_found
          /\ FeasibleSlots # {}

====
